---- MODULE Spec2Model ----
(***************************************************************************)
(* State-machine model of src/src/main.rs: main, Backend::new,             *)
(* Backend::submit_and_wait and do_render_pass, together with the graphics *)
(* driver they call (adapter/device acquisition, uncaptured-error          *)
(* reporting, and the device timeline that executes submitted commands).   *)
(***************************************************************************)
EXTENDS Integers, Sequences, FiniteSets, TLC

VARIABLES
    args,             \* Args: the four command line flags (main.rs 7-19)
    driver,           \* what the graphics backend is able to do in this run
    pc,               \* position of the main thread
    ret,              \* where submit_and_wait returns to
    handler,          \* TRUE once device.on_uncaptured_error has been called
    errorReported,    \* TRUE once the driver has reported an uncaptured error
    resources,        \* labels of the objects created on the device
    encoder,          \* the command encoder being recorded
    render_pass,      \* the render pass being recorded
    submission_index, \* index returned by the last queue.submit
    inflight,         \* submissions the device has not finished, oldest first
    completed,        \* indices of the submissions the device has finished
    queries,          \* per query set and index: how often the device wrote it
    bufferWritten,    \* byte offsets of the resolve buffer the device wrote
    trace             \* every wgpu call issued so far, in order

vars == << args, driver, pc, ret, handler, errorReported, resources, encoder,
           render_pass, submission_index, inflight, completed, queries,
           bufferWritten, trace >>

----------------------------------------------------------------------------
(* Program constants *)

\* count: 1 of the pipeline statistics query set
StatsQueryCount == 1

\* count: 3 of the timestamps query set
TimestampsQueryCount == 3

\* wgpu::QUERY_RESOLVE_BUFFER_ALIGNMENT
QUERY_RESOLVE_BUFFER_ALIGNMENT == 256

\* bytes of one resolved timestamp query (wgpu::QUERY_SIZE)
TimestampQuerySize == 8

\* bytes of one resolved pipeline statistics query: PipelineStatisticsTypes::all()
\* holds five counters of wgpu::QUERY_SIZE bytes each
StatsQuerySize == 40

StatsSet == "pipeline statistics"
TimestampsSet == "timestamps"

QuerySetCount(qs) == IF qs = StatsSet THEN StatsQueryCount ELSE TimestampsQueryCount

QuerySize(qs) == IF qs = StatsSet THEN StatsQuerySize ELSE TimestampQuerySize

\* Variant: a buffer of one alignment unit
BufferSizeOneUnit == QUERY_RESOLVE_BUFFER_ALIGNMENT

\* size: wgpu::QUERY_RESOLVE_BUFFER_ALIGNMENT * 2
BufferSize == QUERY_RESOLVE_BUFFER_ALIGNMENT * 2

\* size: Extent3d { width: 1, height: 1, depth_or_array_layers: 1 }
TextureSize == 1 * 1 * 1

\* A Rust range a..b: a inclusive, b exclusive
Range(a, b) == a .. (b - 1)

\* An Option<T> is the set of its values: {} is None, {x} is Some(x)
None == {}
Some(x) == {x}

----------------------------------------------------------------------------
(* Expressions of main and do_render_pass *)

\* Variant: the condition joined by && instead of ||
RunsRenderPassBoth == args.pass_stats /\ args.pass_times

\* if args.pass_stats || args.pass_times
RunsRenderPass == args.pass_stats \/ args.pass_times

\* args.pass_times.then_some(&timestamps_query_set)
timestamp_query == IF args.pass_times THEN Some(TimestampsSet) ELSE None

\* Variant: the statistics query set is passed whatever pass_stats is
pipeline_statistics_query_always == Some("pipeline statistics")

\* args.pass_stats.then_some(&pipeline_statistics_query_set)
pipeline_statistics_query == IF args.pass_stats THEN Some(StatsSet) ELSE None

\* beginning_of_pass_write_index: Some(0)
beginning_of_pass_write_index == Some(0)

\* Variant: the end of the pass writes the third query
end_of_pass_write_index_last == Some(2)

\* end_of_pass_write_index: Some(1)
end_of_pass_write_index == Some(1)

\* timestamp_writes: timestamp_query.map(|q| RenderPassTimestampWrites {..})
timestamp_writes ==
    IF timestamp_query # None
    THEN [query_set |-> timestamp_query,
          begin |-> beginning_of_pass_write_index,
          end |-> end_of_pass_write_index]
    ELSE [query_set |-> None, begin |-> None, end |-> None]

\* render_pass.begin_pipeline_statistics_query(&pipeline_statistics_query, 0)
StatsQueryIndex == 0

\* resolve_query_set(&pipeline_statistics_query_set, 0..1, &buffer, 0)
StatsResolveRange == Range(0, 1)

StatsResolveOffset == QUERY_RESOLVE_BUFFER_ALIGNMENT * 0

\* resolve_query_set(&timestamps_query_set, 0..1, &buffer,
\*                   wgpu::QUERY_RESOLVE_BUFFER_ALIGNMENT)
TimestampsResolveRange == Range(0, 1)

TimestampsResolveOffset == QUERY_RESOLVE_BUFFER_ALIGNMENT

\* if args.query_stats
ResolvesStats == args.query_stats

\* Variant: the timestamp resolve is guarded by the wrong flag
ResolvesTimestampsOnStatsFlag == args.query_stats

\* if args.query_times
ResolvesTimestamps == args.query_times

----------------------------------------------------------------------------
(* Calls and commands *)

\* One wgpu call, or one recorded command.
Call(op) ==
    [op |-> op, qs |-> "", idx |-> {}, offset |-> 0, size |-> 0,
     tsBegin |-> {}, tsEnd |-> {}, label |-> "", sub |-> 0]

NoEncoder == [live |-> FALSE, label |-> "", cmds |-> << >>]

NoPass == [open |-> FALSE, tsEnd |-> {}, stats |-> {}]

\* The bytes a resolve of the queries idx of qs writes, from offset on
ResolveBytes(qs, idx, offset) ==
    IF idx = {} THEN {}
    ELSE offset .. (offset + Cardinality(idx) * QuerySize(qs) - 1)

----------------------------------------------------------------------------
(* Failure paths *)

\* Variant: the failure is ignored
expect_ignored(ok, next) == next

\* .expect("no adapter") / .expect("could not open device"): panics on failure
expect(ok, next) == IF ok THEN next ELSE "aborted"

\* Variant: a handler that logs and returns
on_uncaptured_error_logs(next) == next

\* the closure given to device.on_uncaptured_error: logs, then panics
on_uncaptured_error(next) == "aborted"

\* Whether the driver may report an uncaptured error in the call being made
FaultChoices == IF driver.errors /\ handler THEN BOOLEAN ELSE {FALSE}

\* The driver reports an uncaptured error: the registered handler runs
Report(next) ==
    /\ errorReported' = TRUE
    /\ pc' = on_uncaptured_error(next)

Issue(call) == trace' = Append(trace, call)

----------------------------------------------------------------------------
Init ==
    /\ args \in [query_stats : BOOLEAN, query_times : BOOLEAN,
                 pass_times : BOOLEAN, pass_stats : BOOLEAN]
    /\ driver \in [adapter : BOOLEAN, device : BOOLEAN,
                   errors : BOOLEAN, completes : BOOLEAN]
    /\ pc = "request_adapter"
    /\ ret = "done"
    /\ handler = FALSE
    /\ errorReported = FALSE
    /\ resources = {}
    /\ encoder = NoEncoder
    /\ render_pass = NoPass
    /\ submission_index = 0
    /\ inflight = << >>
    /\ completed = {}
    /\ queries = [qs \in {StatsSet, TimestampsSet} |->
                    [i \in Range(0, QuerySetCount(qs)) |-> 0]]
    /\ bufferWritten = {}
    /\ trace = << >>

----------------------------------------------------------------------------
(* Backend::new *)

\* pollster::block_on(instance.request_adapter(..)).expect("no adapter")
RequestAdapter ==
    /\ pc = "request_adapter"
    /\ Issue(Call("request_adapter"))
    /\ pc' = expect(driver.adapter, "request_device")
    /\ UNCHANGED << args, driver, ret, handler, errorReported, resources,
                    encoder, render_pass, submission_index, inflight,
                    completed, queries, bufferWritten >>

\* pollster::block_on(adapter.request_device(..)).expect("could not open device")
RequestDevice ==
    /\ pc = "request_device"
    /\ Issue(Call("request_device"))
    /\ pc' = expect(driver.device, "on_uncaptured_error")
    /\ UNCHANGED << args, driver, ret, handler, errorReported, resources,
                    encoder, render_pass, submission_index, inflight,
                    completed, queries, bufferWritten >>

\* device.on_uncaptured_error(Box::new(|error| { .. panic!(..) }))
RegisterHandler ==
    /\ pc = "on_uncaptured_error"
    /\ handler' = TRUE
    /\ pc' = "create_stats_query_set"
    /\ UNCHANGED << args, driver, ret, errorReported, resources, encoder,
                    render_pass, submission_index, inflight, completed,
                    queries, bufferWritten, trace >>

----------------------------------------------------------------------------
(* main: query sets and buffer *)

\* Creating one labelled object on the device
Create(at, op, label, size, next) ==
    /\ pc = at
    /\ Issue([Call(op) EXCEPT !.label = label, !.size = size])
    /\ \E fault \in FaultChoices :
         IF fault
         THEN Report(next) /\ UNCHANGED resources
         ELSE /\ pc' = next
              /\ resources' = resources \cup {label}
              /\ UNCHANGED errorReported
    /\ UNCHANGED << args, driver, ret, handler, encoder, render_pass,
                    submission_index, inflight, completed, queries,
                    bufferWritten >>

CreateStatsQuerySet ==
    Create("create_stats_query_set", "create_query_set", StatsSet,
           StatsQueryCount, "create_timestamps_query_set")

CreateTimestampsQuerySet ==
    Create("create_timestamps_query_set", "create_query_set", TimestampsSet,
           TimestampsQueryCount, "create_buffer")

CreateBuffer ==
    Create("create_buffer", "create_buffer", "buffer", BufferSize, "branch")

\* if args.pass_stats || args.pass_times { do_render_pass(..) }
Branch ==
    /\ pc = "branch"
    /\ pc' = IF RunsRenderPass THEN "rp_create_encoder" ELSE "create_encoder"
    /\ UNCHANGED << args, driver, ret, handler, errorReported, resources,
                    encoder, render_pass, submission_index, inflight,
                    completed, queries, bufferWritten, trace >>

----------------------------------------------------------------------------
(* Command recording *)

\* device.create_command_encoder(..)
CreateEncoder(at, label, next) ==
    /\ pc = at
    /\ Issue([Call("create_command_encoder") EXCEPT !.label = label])
    /\ \E fault \in FaultChoices :
         IF fault
         THEN Report(next) /\ UNCHANGED encoder
         ELSE /\ pc' = next
              /\ encoder' = [live |-> TRUE, label |-> label, cmds |-> << >>]
              /\ UNCHANGED errorReported
    /\ UNCHANGED << args, driver, ret, handler, resources, render_pass,
                    submission_index, inflight, completed, queries,
                    bufferWritten >>

\* One command recorded into the live encoder; pass is the render pass state
\* the command leaves behind.
Record(at, cmd, pass, next) ==
    /\ pc = at
    /\ Issue(cmd)
    /\ \E fault \in FaultChoices :
         IF fault
         THEN Report(next) /\ UNCHANGED << encoder, render_pass >>
         ELSE /\ pc' = next
              /\ encoder' = [encoder EXCEPT !.cmds = Append(@, cmd)]
              /\ render_pass' = pass
              /\ UNCHANGED errorReported
    /\ UNCHANGED << args, driver, ret, handler, resources, submission_index,
                    inflight, completed, queries, bufferWritten >>

----------------------------------------------------------------------------
(* do_render_pass *)

RpCreateEncoder ==
    CreateEncoder("rp_create_encoder", "render pass", "rp_create_texture")

RpCreateTexture ==
    Create("rp_create_texture", "create_texture", "render target",
           TextureSize, "rp_create_view")

RpCreateView ==
    Create("rp_create_view", "create_view", "render target view",
           TextureSize, "rp_begin_render_pass")

\* command_encoder.begin_render_pass(&wgpu::RenderPassDescriptor {..})
RpBeginRenderPass ==
    Record("rp_begin_render_pass",
           [Call("begin_render_pass") EXCEPT
               !.label = "render pass",
               !.qs = IF timestamp_writes.query_set = None THEN ""
                      ELSE TimestampsSet,
               !.tsBegin = timestamp_writes.begin,
               !.tsEnd = timestamp_writes.end],
           [open |-> TRUE, tsEnd |-> timestamp_writes.end, stats |-> None],
           IF pipeline_statistics_query # None
           THEN "rp_begin_pipeline_statistics_query"
           ELSE "rp_drop_render_pass")

\* render_pass.begin_pipeline_statistics_query(&pipeline_statistics_query, 0)
RpBeginPipelineStatisticsQuery ==
    Record("rp_begin_pipeline_statistics_query",
           [Call("begin_pipeline_statistics_query") EXCEPT
               !.qs = StatsSet, !.idx = Some(StatsQueryIndex)],
           [render_pass EXCEPT !.stats = Some(StatsQueryIndex)],
           "rp_end_pipeline_statistics_query")

\* render_pass.end_pipeline_statistics_query(): closes the active query
RpEndPipelineStatisticsQuery ==
    Record("rp_end_pipeline_statistics_query",
           [Call("end_pipeline_statistics_query") EXCEPT
               !.qs = StatsSet, !.idx = render_pass.stats],
           [render_pass EXCEPT !.stats = None],
           "rp_drop_render_pass")

\* drop(render_pass): ends the pass
RpDropRenderPass ==
    Record("rp_drop_render_pass",
           [Call("end_render_pass") EXCEPT
               !.label = "render pass",
               !.qs = IF render_pass.tsEnd = None THEN "" ELSE TimestampsSet,
               !.tsEnd = render_pass.tsEnd],
           NoPass,
           "rp_submit_and_wait")

----------------------------------------------------------------------------
(* main: resolve queries *)

ResolveCreateEncoder ==
    CreateEncoder("create_encoder", "", "resolve_stats")

Skip(at, next) ==
    /\ pc = at
    /\ pc' = next
    /\ UNCHANGED << args, driver, ret, handler, errorReported, resources,
                    encoder, render_pass, submission_index, inflight,
                    completed, queries, bufferWritten, trace >>

\* if args.query_stats { command_encoder.resolve_query_set(.., 0..1, &buffer, 0) }
ResolveStats ==
    IF ResolvesStats
    THEN Record("resolve_stats",
                [Call("resolve_query_set") EXCEPT
                    !.qs = StatsSet, !.idx = StatsResolveRange,
                    !.offset = StatsResolveOffset],
                render_pass, "resolve_timestamps")
    ELSE Skip("resolve_stats", "resolve_timestamps")

\* if args.query_times { command_encoder.resolve_query_set(.., 0..1, &buffer,
\*                       wgpu::QUERY_RESOLVE_BUFFER_ALIGNMENT) }
ResolveTimestamps ==
    IF ResolvesTimestamps
    THEN Record("resolve_timestamps",
                [Call("resolve_query_set") EXCEPT
                    !.qs = TimestampsSet, !.idx = TimestampsResolveRange,
                    !.offset = TimestampsResolveOffset],
                render_pass, "submit_and_wait")
    ELSE Skip("resolve_timestamps", "submit_and_wait")

----------------------------------------------------------------------------
(* Backend::submit_and_wait *)

\* Variant: waiting for a submission that was never made
WaitTargetNext == submission_index + 1

\* the submission index poll waits for: wait_for(submission_index)
WaitTarget == submission_index

\* Variant: Maintain::Poll, which returns without waiting
PollNoWait == TRUE

\* Maintain::wait_for blocks until the device has finished that submission
PollReady == WaitTarget \in completed

\* let submission_index = self.queue.submit([command_encoder.finish()]);
\* called at `at`, returning to `returnTo` once the wait is over
Submit(at, returnTo) ==
    /\ pc = at
    /\ ret' = returnTo
    /\ trace' = trace \o << [Call("finish") EXCEPT !.label = encoder.label],
                            [Call("submit") EXCEPT
                                !.label = encoder.label,
                                !.sub = submission_index + 1] >>
    /\ \E fault \in FaultChoices :
         IF fault
         THEN Report("poll")
              /\ UNCHANGED << encoder, submission_index, inflight >>
         ELSE /\ pc' = "poll"
              /\ submission_index' = submission_index + 1
              /\ inflight' = Append(inflight,
                                    [index |-> submission_index + 1,
                                     label |-> encoder.label,
                                     cmds |-> encoder.cmds])
              /\ encoder' = NoEncoder
              /\ UNCHANGED errorReported
    /\ UNCHANGED << args, driver, handler, resources, render_pass, completed,
                    queries, bufferWritten >>

\* backend.submit_and_wait(command_encoder) at the end of do_render_pass
RpSubmit == Submit("rp_submit_and_wait", "create_encoder")

\* backend.submit_and_wait(command_encoder) at the end of main
ResolveSubmit == Submit("submit_and_wait", "done")

\* self.device.poll(wgpu::Maintain::wait_for(submission_index));
Poll ==
    /\ pc = "poll"
    /\ \E fault \in FaultChoices :
         IF fault
         THEN Report(ret)
         ELSE /\ PollReady
              /\ pc' = ret
              /\ UNCHANGED errorReported
    /\ Issue([Call("poll") EXCEPT !.sub = WaitTarget])
    /\ UNCHANGED << args, driver, ret, handler, resources, encoder,
                    render_pass, submission_index, inflight, completed,
                    queries, bufferWritten >>

----------------------------------------------------------------------------
(* The device timeline *)

Bump(f, S) == [i \in DOMAIN f |-> IF i \in S THEN f[i] + 1 ELSE f[i]]

\* The query writes the device makes when it executes cmd
Executed(q, cmd) ==
    CASE cmd.op = "begin_render_pass" ->
           [q EXCEPT ![TimestampsSet] = Bump(@, cmd.tsBegin)]
      [] cmd.op = "end_render_pass" ->
           [q EXCEPT ![TimestampsSet] = Bump(@, cmd.tsEnd)]
      [] cmd.op = "end_pipeline_statistics_query" ->
           [q EXCEPT ![StatsSet] = Bump(@, cmd.idx)]
      [] OTHER -> q

\* The device executes the next command of its oldest submission, or, with
\* none left, signals that submission complete.
DeviceStep ==
    /\ driver.completes
    /\ pc # "aborted"
    /\ inflight # << >>
    /\ LET head == Head(inflight) IN
       IF head.cmds = << >>
       THEN /\ completed' = completed \cup {head.index}
            /\ inflight' = Tail(inflight)
            /\ UNCHANGED << queries, bufferWritten >>
       ELSE LET cmd == Head(head.cmds) IN
            /\ inflight' = [inflight EXCEPT ![1].cmds = Tail(@)]
            /\ queries' = Executed(queries, cmd)
            /\ bufferWritten' =
                 IF cmd.op = "resolve_query_set"
                 THEN bufferWritten \cup ResolveBytes(cmd.qs, cmd.idx, cmd.offset)
                 ELSE bufferWritten
            /\ UNCHANGED completed
    /\ UNCHANGED << args, driver, pc, ret, handler, errorReported, resources,
                    encoder, render_pass, submission_index, trace >>

----------------------------------------------------------------------------
Main ==
    \/ RequestAdapter
    \/ RequestDevice
    \/ RegisterHandler
    \/ CreateStatsQuerySet
    \/ CreateTimestampsQuerySet
    \/ CreateBuffer
    \/ Branch
    \/ RpCreateEncoder
    \/ RpCreateTexture
    \/ RpCreateView
    \/ RpBeginRenderPass
    \/ RpBeginPipelineStatisticsQuery
    \/ RpEndPipelineStatisticsQuery
    \/ RpDropRenderPass
    \/ RpSubmit
    \/ ResolveCreateEncoder
    \/ ResolveStats
    \/ ResolveTimestamps
    \/ ResolveSubmit
    \/ Poll

Next == Main \/ DeviceStep

Spec == Init /\ [][Next]_vars

\* The main thread runs whenever it is not blocked, and a device that
\* completes work keeps executing what was submitted.
LiveSpec == Spec /\ WF_vars(Main) /\ WF_vars(DeviceStep)

----------------------------------------------------------------------------
(* Properties *)

Ops(op) == {i \in 1..Len(trace) : trace[i].op = op}

OpsOf(op, label) == {i \in Ops(op) : trace[i].label = label}

ResolvesOf(qs) == {i \in Ops("resolve_query_set") : trace[i].qs = qs}

PassRequested == args.pass_times \/ args.pass_stats

\* The backend is capable: an adapter and a device are found, and the device
\* completes the work submitted to it.
DriverOk == driver.adapter /\ driver.device /\ driver.completes

\* The last call made is the wait for the resolve submission, which is the
\* last submission made.
EndsAfterResolveWait ==
    /\ Len(trace) >= 2
    /\ trace[Len(trace)].op = "poll"
    /\ trace[Len(trace)].sub = submission_index
    /\ trace[Len(trace) - 1].op = "submit"
    /\ trace[Len(trace) - 1].label = ""
    /\ trace[Len(trace) - 1].sub = submission_index
    /\ submission_index \in completed

\* C1: for every flag combination, on a capable backend (adapter and device
\* found, submitted work completes) the run reaches normal exit unless an
\* uncaptured error is reported; without such an error it never aborts; and
\* normal exit comes right after the wait for the resolve submission.
C1_CapableRunExits ==
    /\ [](DriverOk => <>(pc = "done" \/ errorReported))
    /\ [](DriverOk /\ ~errorReported => pc # "aborted")
    /\ [](pc = "done" => EndsAfterResolveWait)

C1_Witness ==
    /\ pc = "done"
    /\ DriverOk
    /\ ~errorReported
    /\ args.pass_times /\ args.pass_stats /\ args.query_stats /\ args.query_times
    /\ EndsAfterResolveWait

\* C2: with pass_times and pass_stats both false no render target is created,
\* no render pass encoder is created, no render pass is begun, and a run that
\* exits has made exactly one submission, the resolve submission, whatever
\* query_stats and query_times are; with one of them true, at most one render
\* pass is ever recorded, and a run that exits has recorded and submitted
\* exactly one.
C2_RenderPassIffRequested ==
    /\ ~PassRequested =>
         /\ Ops("create_texture") = {}
         /\ Ops("create_view") = {}
         /\ Ops("begin_render_pass") = {}
         /\ Ops("end_render_pass") = {}
         /\ OpsOf("create_command_encoder", "render pass") = {}
         /\ OpsOf("submit", "render pass") = {}
         /\ Cardinality(Ops("submit")) <= 1
         /\ pc = "done" =>
              /\ Cardinality(Ops("submit")) = 1
              /\ Cardinality(OpsOf("submit", "")) = 1
    /\ PassRequested =>
         /\ Cardinality(Ops("begin_render_pass")) <= 1
         /\ Cardinality(Ops("end_render_pass")) <= 1
         /\ Cardinality(OpsOf("submit", "render pass")) <= 1
         /\ pc = "done" =>
              /\ Cardinality(Ops("create_texture")) = 1
              /\ Cardinality(Ops("begin_render_pass")) = 1
              /\ Cardinality(Ops("end_render_pass")) = 1
              /\ Cardinality(OpsOf("submit", "render pass")) = 1
              /\ Cardinality(Ops("submit")) = 2
              /\ \A b \in Ops("begin_render_pass") :
                 \A e \in Ops("end_render_pass") :
                 \A f \in OpsOf("submit", "render pass") :
                     b < e /\ e < f

C2_Witness ==
    /\ pc = "done"
    /\ ~PassRequested
    /\ args.query_stats /\ args.query_times
    /\ Cardinality(Ops("submit")) = 1

\* C3: with pass_times true the render pass names timestamp index 0 for its
\* begin and index 1 for its end, the device writes each of them at most once
\* and, in a run that exits, exactly once, and index 2 is never written; with
\* pass_times false no render pass names a timestamp index and no timestamp
\* index is ever written.
C3_TimestampWrites ==
    /\ args.pass_times =>
         /\ \A i \in Ops("begin_render_pass") :
                trace[i].tsBegin = {0} /\ trace[i].tsEnd = {1}
                /\ trace[i].qs = TimestampsSet
         /\ \A i \in Ops("end_render_pass") : trace[i].tsEnd = {1}
         /\ queries[TimestampsSet][0] <= 1
         /\ queries[TimestampsSet][1] <= 1
         /\ queries[TimestampsSet][2] = 0
         /\ pc = "done" =>
              /\ queries[TimestampsSet][0] = 1
              /\ queries[TimestampsSet][1] = 1
    /\ ~args.pass_times =>
         /\ \A i \in 1..Len(trace) :
                trace[i].tsBegin = {} /\ trace[i].tsEnd = {}
         /\ \A i \in DOMAIN queries[TimestampsSet] :
                queries[TimestampsSet][i] = 0

C3_Witness ==
    /\ pc = "done"
    /\ args.pass_times
    /\ queries[TimestampsSet][0] = 1
    /\ queries[TimestampsSet][1] = 1

\* C4: with pass_stats true a pipeline-statistics query is opened at most once
\* and closed at most once, both at index 0, the open after the render pass
\* begins and the close after the open; once the pass has ended there is
\* exactly one open and one close, both between the begin and the end of the
\* pass. With pass_stats false no pipeline-statistics query is ever opened or
\* closed.
C4_StatsScopeInsidePass ==
    /\ args.pass_stats =>
         /\ Cardinality(Ops("begin_pipeline_statistics_query")) <= 1
         /\ Cardinality(Ops("end_pipeline_statistics_query")) <= 1
         /\ \A o \in Ops("begin_pipeline_statistics_query") :
                /\ trace[o].idx = {0}
                /\ \E b \in Ops("begin_render_pass") : b < o
                /\ \A e \in Ops("end_render_pass") : o < e
         /\ \A c \in Ops("end_pipeline_statistics_query") :
                /\ trace[c].idx = {0}
                /\ \E o \in Ops("begin_pipeline_statistics_query") : o < c
                /\ \A e \in Ops("end_render_pass") : c < e
         /\ Ops("end_render_pass") # {} =>
              /\ Cardinality(Ops("begin_pipeline_statistics_query")) = 1
              /\ Cardinality(Ops("end_pipeline_statistics_query")) = 1
         /\ pc = "done" => queries[StatsSet][0] = 1
    /\ ~args.pass_stats =>
         /\ Ops("begin_pipeline_statistics_query") = {}
         /\ Ops("end_pipeline_statistics_query") = {}
         /\ queries[StatsSet][0] = 0

C4_Witness ==
    /\ args.pass_stats
    /\ Ops("end_render_pass") # {}
    /\ Cardinality(Ops("begin_pipeline_statistics_query")) = 1
    /\ Cardinality(Ops("end_pipeline_statistics_query")) = 1

\* C5: a resolve of the pipeline-statistics query set is never recorded when
\* query_stats is false and a resolve of the timestamp query set never when
\* query_times is false; once the resolve encoder is finished it holds exactly
\* one statistics resolve, at offset 0, iff query_stats and exactly one
\* timestamp resolve, at the alignment offset, iff query_times, whatever
\* pass_times and pass_stats are, the statistics resolve first; every resolve
\* is recorded into the resolve encoder.
C5_ResolvesFollowFlags ==
    /\ ~args.query_stats => ResolvesOf(StatsSet) = {}
    /\ ~args.query_times => ResolvesOf(TimestampsSet) = {}
    /\ \A r \in Ops("resolve_query_set") :
           /\ trace[r].qs \in {StatsSet, TimestampsSet}
           /\ trace[r].qs = StatsSet => trace[r].offset = 0
           /\ trace[r].qs = TimestampsSet =>
                  trace[r].offset = QUERY_RESOLVE_BUFFER_ALIGNMENT
           /\ \E e \in OpsOf("create_command_encoder", "") : e < r
           /\ \A f \in OpsOf("finish", "") : r < f
    /\ \A s \in ResolvesOf(StatsSet) : \A t \in ResolvesOf(TimestampsSet) : s < t
    /\ OpsOf("finish", "") # {} =>
         /\ Cardinality(ResolvesOf(StatsSet)) = (IF args.query_stats THEN 1 ELSE 0)
         /\ Cardinality(ResolvesOf(TimestampsSet)) = (IF args.query_times THEN 1 ELSE 0)

C5_Witness ==
    /\ pc = "done"
    /\ args.query_stats /\ args.query_times
    /\ ~args.pass_times /\ args.pass_stats
    /\ Cardinality(Ops("resolve_query_set")) = 2

\* C6: every resolve of the timestamp query set resolves exactly the indices
\* 0 and 1.
C6_ResolvesBothTimestamps ==
    \A r \in ResolvesOf(TimestampsSet) : trace[r].idx = {0, 1}

\* C7: if no adapter is found or the device cannot be opened, the run aborts
\* at that request: each request is made at most once, no device is requested
\* without an adapter, and no query set, buffer, encoder, render pass or
\* submission ever exists.
C7_SetupFailureAborts ==
    (~driver.adapter \/ ~driver.device) =>
        /\ pc \in {"request_adapter", "request_device", "aborted"}
        /\ (~driver.adapter /\ trace # << >>) => pc = "aborted"
        /\ (~driver.device /\ Ops("request_device") # {}) => pc = "aborted"
        /\ ~driver.adapter => Ops("request_device") = {}
        /\ \A i \in 1..Len(trace) :
               trace[i].op \in {"request_adapter", "request_device"}
        /\ Cardinality(Ops("request_adapter")) <= 1
        /\ Cardinality(Ops("request_device")) <= 1
        /\ resources = {}
        /\ encoder = NoEncoder
        /\ render_pass = NoPass
        /\ submission_index = 0
        /\ inflight = << >>
        /\ ~handler

C7_Witness ==
    /\ pc = "aborted"
    /\ driver.adapter /\ ~driver.device
    /\ Ops("request_device") # {}

\* C8: at most two submissions and two waits are made; every submission is
\* followed at once by the wait for that same submission and every wait
\* follows its submission; never is more than one submission in flight; when
\* the resolve encoder is created every submission made before it is complete;
\* nothing is submitted after the resolve submission.
C8_SequentialSubmissions ==
    /\ Cardinality(Ops("submit")) <= 2
    /\ Cardinality(Ops("poll")) <= 2
    /\ Len(inflight) <= 1
    /\ \A i \in Ops("submit") :
           i = Len(trace)
           \/ (trace[i + 1].op = "poll" /\ trace[i + 1].sub = trace[i].sub)
    /\ \A i \in Ops("poll") :
           /\ i > 1
           /\ trace[i - 1].op = "submit"
           /\ trace[i - 1].sub = trace[i].sub
    /\ \A e \in OpsOf("create_command_encoder", "") :
       \A i \in Ops("submit") :
           i < e => (trace[i].sub \in completed /\ trace[i].label = "render pass")
    /\ \A i \in OpsOf("submit", "") : \A j \in Ops("submit") : j <= i

C8_Witness ==
    /\ pc = "done"
    /\ Cardinality(Ops("submit")) = 2
    /\ Cardinality(Ops("poll")) = 2
    /\ completed = {1, 2}

\* C9: once the driver has reported an uncaptured error the run is aborted:
\* it never reaches normal exit and no further call, recording or submission
\* is made.
C9_UncapturedErrorAborts ==
    /\ [](errorReported => (handler /\ pc = "aborted"))
    /\ [][errorReported =>
            /\ trace' = trace
            /\ encoder' = encoder
            /\ submission_index' = submission_index
            /\ inflight' = inflight
            /\ resources' = resources]_vars

C9_Witness ==
    /\ errorReported
    /\ pc = "aborted"
    /\ Cardinality(Ops("submit")) = 1
    /\ trace[Len(trace)].op = "submit"
    /\ trace[Len(trace)].label = "render pass"
    /\ Ops("create_command_encoder") = OpsOf("create_command_encoder", "render pass")

\* The size the object labelled label was created with
CreatedSize(label) ==
    LET c == {i \in 1..Len(trace) :
                 /\ trace[i].op \in {"create_query_set", "create_buffer"}
                 /\ trace[i].label = label}
    IN  IF c = {} THEN 0 ELSE trace[CHOOSE i \in c : TRUE].size

\* C10: the statistics set is created with capacity 1, the timestamp set with
\* capacity 3 and the buffer with 2 x alignment bytes; every query index
\* written or resolved is below the capacity of its set; every resolve's
\* destination offset is a multiple of the alignment and its destination
\* bytes lie inside the buffer; the statistics and the timestamp destination
\* bytes are disjoint; the device writes no byte outside the buffer.
C10_IndicesAndRangesInBounds ==
    /\ \A i \in Ops("create_query_set") :
           /\ trace[i].label = StatsSet => trace[i].size = 1
           /\ trace[i].label = TimestampsSet => trace[i].size = 3
    /\ \A i \in Ops("create_buffer") :
           trace[i].size = 2 * QUERY_RESOLVE_BUFFER_ALIGNMENT
    /\ \A i \in 1..Len(trace) :
           /\ \A q \in trace[i].idx : q >= 0 /\ q < CreatedSize(trace[i].qs)
           /\ \A q \in trace[i].tsBegin \cup trace[i].tsEnd :
                  q >= 0 /\ q < CreatedSize(TimestampsSet)
    /\ \A r \in Ops("resolve_query_set") :
           /\ trace[r].idx # {}
           /\ trace[r].offset % QUERY_RESOLVE_BUFFER_ALIGNMENT = 0
           /\ ResolveBytes(trace[r].qs, trace[r].idx, trace[r].offset)
                  \subseteq 0 .. (CreatedSize("buffer") - 1)
    /\ \A s \in ResolvesOf(StatsSet) : \A t \in ResolvesOf(TimestampsSet) :
           ResolveBytes(trace[s].qs, trace[s].idx, trace[s].offset)
             \cap ResolveBytes(trace[t].qs, trace[t].idx, trace[t].offset) = {}
    /\ bufferWritten \subseteq 0 .. (CreatedSize("buffer") - 1)

C10_Witness ==
    /\ pc = "done"
    /\ args.query_stats /\ args.query_times /\ args.pass_times /\ args.pass_stats
    /\ bufferWritten # {}
    /\ \E b \in bufferWritten : b >= QUERY_RESOLVE_BUFFER_ALIGNMENT
    /\ 0 \in bufferWritten

====
